---------------------------- MODULE Spec2Model ----------------------------
(***************************************************************************)
(* Model of apps/momentum/src-tauri/src/lib.rs: the `greet` command, the   *)
(* two cfg variants of `prevent_default`, and the bootstrap `run`.         *)
(*                                                                         *)
(* The two compile-time axes (debug_assertions, desktop) are state that is *)
(* fixed by Init.  `run` is modelled statement by statement; the host      *)
(* framework's answers (does window "main" exist, does a registration or   *)
(* the run loop fail) are nondeterministic inputs.                         *)
(***************************************************************************)
EXTENDS Naturals, Sequences, FiniteSets

\* Longest `name` argument handed to greet.
MaxNameLen == 2

\* Characters a name is drawn from: a letter, whitespace, a control
\* character and the two format-string metacharacters.
Chars == {"a", " ", "\t", "{", "}"}

RECURSIVE SeqsUpTo(_)
SeqsUpTo(n) ==
    IF n = 0 THEN {<<>>}
    ELSE LET S == SeqsUpTo(n - 1)
         IN  S \cup {Append(s, c) : s \in {t \in S : Len(t) = n - 1}, c \in Chars}

Names == SeqsUpTo(MaxNameLen)

---------------------------------------------------------------------------
(* greet: format!("Hello, {}! You've been greeted from Rust!", name)       *)

\* The format string literal, character by character.
GreetTemplate ==
    <<"H","e","l","l","o",","," ","{","}","!"," ","Y","o","u","'","v","e",
      " ","b","e","e","n"," ","g","r","e","e","t","e","d"," ","f","r","o",
      "m"," ","R","u","s","t","!">>

\* Display of a &str writes its characters as they are.
Display(s) == s

\* Debug of a &str quotes it and escapes quote, tab and backslash.
RECURSIVE EscapeFrom(_, _)
EscapeFrom(s, i) ==
    IF i > Len(s) THEN <<>>
    ELSE (IF s[i] = "\"" THEN <<"\\", "\"">>
          ELSE IF s[i] = "\t" THEN <<"\\", "t">>
          ELSE <<s[i]>>) \o EscapeFrom(s, i + 1)

DebugFmt(s) == <<"\"">> \o EscapeFrom(s, 1) \o <<"\"">>

\* format!: literal characters are copied, each "{}" placeholder is
\* replaced by the next argument; arguments are not scanned again.
RECURSIVE FormatFrom(_, _, _, _)
FormatFrom(t, i, args, k) ==
    IF i > Len(t) THEN <<>>
    ELSE IF t[i] = "{" /\ i < Len(t) /\ t[i + 1] = "}"
         THEN Display(args[k]) \o FormatFrom(t, i + 2, args, k + 1)
         ELSE <<t[i]>> \o FormatFrom(t, i + 1, args, k)

RECURSIVE FormatDebugFrom(_, _, _, _)
FormatDebugFrom(t, i, args, k) ==
    IF i > Len(t) THEN <<>>
    ELSE IF t[i] = "{" /\ i < Len(t) /\ t[i + 1] = "}"
         THEN DebugFmt(args[k]) \o FormatDebugFrom(t, i + 2, args, k + 1)
         ELSE <<t[i]>> \o FormatDebugFrom(t, i + 1, args, k)

greet_debug(name) == FormatDebugFrom(GreetTemplate, 1, <<name>>, 1)

greet(name) == FormatFrom(GreetTemplate, 1, <<name>>, 1)

---------------------------------------------------------------------------
(* prevent_default: the flags handed to the prevent-default plugin         *)

\* tauri_plugin_prevent_default::Flags, one element per bit.
AllFlags ==
    {"FIND", "CARET_BROWSING", "DEV_TOOLS", "DOWNLOADS", "FOCUS_MOVE",
     "RELOAD", "SOURCE", "OPEN", "PRINT", "CONTEXT_MENU"}

\* Flags::difference
difference(a, b) == a \ b

Plugin(n, f) == [name |-> n, flags |-> f]

prevent_default_same(dbg) ==
    Plugin("prevent-default", difference(AllFlags, {"CONTEXT_MENU"}))

prevent_default_all(dbg) ==
    IF dbg
    THEN Plugin("prevent-default", difference(AllFlags, {"DEV_TOOLS", "RELOAD"}))
    ELSE Plugin("prevent-default", AllFlags)

\* #[cfg(debug_assertions)] / #[cfg(not(debug_assertions))] variants.
prevent_default(dbg) ==
    IF dbg
    THEN Plugin("prevent-default",
                difference(AllFlags, {"DEV_TOOLS", "RELOAD", "CONTEXT_MENU"}))
    ELSE Plugin("prevent-default", difference(AllFlags, {"CONTEXT_MENU"}))

---------------------------------------------------------------------------
(* run: the bootstrap                                                      *)

VARIABLES
    debug_assertions,  \* cfg(debug_assertions): TRUE in a debug build
    desktop,           \* cfg(desktop): TRUE on a desktop target
    pc,                \* the statement of run() that executes next
    plugins,           \* plugins registered so far, in registration order
    commands,          \* commands of the registered invoke handler
    setupHook,         \* TRUE once the setup closure is handed to the builder
    mainWindow,        \* TRUE when a webview window labelled "main" exists
    devtoolsOpen,      \* number of developer-tools panels opened
    updaterAttempts,   \* number of updater registrations attempted
    setupCalls,        \* number of times the setup closure was called
    failure,           \* the step that failed, "none" if none did
    exitMsg,           \* message the process terminated with, "" if none
    log,               \* completed steps, in the order they happened
    invoked,           \* TRUE once greet was invoked
    arg,               \* argument of the latest greet invocation
    reply              \* value the latest greet invocation returned

bootVars ==
    <<debug_assertions, desktop, pc, plugins, commands, setupHook, mainWindow,
      devtoolsOpen, updaterAttempts, setupCalls, failure, exitMsg, log>>

vars == <<bootVars, invoked, arg, reply>>

\* The message of .expect(...) on the result of Builder::run.
ExpectMsg == "error while running tauri application"

\* The message the framework panics with when the setup closure returns Err.
SetupPanicMsg == "Failed to setup app"

\* The .plugin(...) calls of the builder chain, in source order.
Chain(dbg) ==
    <<prevent_default(dbg), Plugin("opener", {}), Plugin("store", {}),
      Plugin("deep-link", {}), Plugin("http", {}), Plugin("process", {}),
      Plugin("os", {})>>

\* Program points of the chain: "chain1" .. "chain7", then invoke_handler.
ChainPc == <<"chain1", "chain2", "chain3", "chain4", "chain5", "chain6", "chain7">>

PcAfterChain(i) == IF i < Len(ChainPc) THEN ChainPc[i + 1] ELSE "invoke_handler"

Init ==
    /\ debug_assertions \in BOOLEAN
    /\ desktop \in BOOLEAN
    /\ pc = "builder"
    /\ plugins = <<>>
    /\ commands = {}
    /\ setupHook = FALSE
    /\ mainWindow = FALSE
    /\ devtoolsOpen = 0
    /\ updaterAttempts = 0
    /\ setupCalls = 0
    /\ failure = "none"
    /\ exitMsg = ""
    /\ log = <<>>
    /\ invoked = FALSE
    /\ arg = <<>>
    /\ reply = <<>>

greetVars == <<invoked, arg, reply>>

BuilderDefault_always_devtools ==
    /\ pc = "builder"
    /\ plugins' = <<Plugin("devtools", {})>>
    /\ log' = Append(log, "devtools")
    /\ pc' = ChainPc[1]
    /\ UNCHANGED <<debug_assertions, desktop, commands, setupHook, mainWindow,
                   devtoolsOpen, updaterAttempts, setupCalls, failure, exitMsg,
                   greetVars>>

\* let builder = tauri::Builder::default()[.plugin(tauri_plugin_devtools::init())]
BuilderDefault ==
    /\ pc = "builder"
    /\ IF debug_assertions
       THEN /\ plugins' = <<Plugin("devtools", {})>>
            /\ log' = Append(log, "devtools")
       ELSE /\ plugins' = <<>>
            /\ log' = log
    /\ pc' = ChainPc[1]
    /\ UNCHANGED <<debug_assertions, desktop, commands, setupHook, mainWindow,
                   devtoolsOpen, updaterAttempts, setupCalls, failure, exitMsg,
                   greetVars>>

BuilderPlugin_skip_os ==
    \E i \in DOMAIN ChainPc :
        /\ pc = ChainPc[i]
        /\ IF Chain(debug_assertions)[i].name = "os"
           THEN UNCHANGED <<plugins, log>>
           ELSE /\ plugins' = Append(plugins, Chain(debug_assertions)[i])
                /\ log' = Append(log, Chain(debug_assertions)[i].name)
        /\ pc' = PcAfterChain(i)
        /\ UNCHANGED <<debug_assertions, desktop, commands, setupHook, mainWindow,
                       devtoolsOpen, updaterAttempts, setupCalls, failure,
                       exitMsg, greetVars>>

BuilderPlugin_swap_first ==
    \E i \in DOMAIN ChainPc :
        /\ pc = ChainPc[i]
        /\ LET j == IF i = 1 THEN 2 ELSE IF i = 2 THEN 1 ELSE i
           IN  /\ plugins' = Append(plugins, Chain(debug_assertions)[j])
               /\ log' = Append(log, Chain(debug_assertions)[j].name)
        /\ pc' = PcAfterChain(i)
        /\ UNCHANGED <<debug_assertions, desktop, commands, setupHook, mainWindow,
                       devtoolsOpen, updaterAttempts, setupCalls, failure,
                       exitMsg, greetVars>>

\* builder.plugin(...): one call of the chain.
BuilderPlugin ==
    \E i \in DOMAIN ChainPc :
        /\ pc = ChainPc[i]
        /\ plugins' = Append(plugins, Chain(debug_assertions)[i])
        /\ log' = Append(log, Chain(debug_assertions)[i].name)
        /\ pc' = PcAfterChain(i)
        /\ UNCHANGED <<debug_assertions, desktop, commands, setupHook, mainWindow,
                       devtoolsOpen, updaterAttempts, setupCalls, failure,
                       exitMsg, greetVars>>

\* .invoke_handler(tauri::generate_handler![greet])
InvokeHandler ==
    /\ pc = "invoke_handler"
    /\ commands' = {"greet"}
    /\ log' = Append(log, "invoke_handler")
    /\ pc' = "setup"
    /\ UNCHANGED <<debug_assertions, desktop, plugins, setupHook, mainWindow,
                   devtoolsOpen, updaterAttempts, setupCalls, failure, exitMsg,
                   greetVars>>

\* .setup(|app| { ... }): the closure is stored, not called.
Setup ==
    /\ pc = "setup"
    /\ setupHook' = TRUE
    /\ log' = Append(log, "setup")
    /\ pc' = "run"
    /\ UNCHANGED <<debug_assertions, desktop, plugins, commands, mainWindow,
                   devtoolsOpen, updaterAttempts, setupCalls, failure, exitMsg,
                   greetVars>>

\* .run(tauri::generate_context!()): the framework builds the app and its
\* windows and calls the setup closure, or fails and returns Err.
Run ==
    /\ pc = "run"
    /\ \/ /\ \E w \in BOOLEAN : mainWindow' = w
          /\ setupCalls' = setupCalls + 1
          /\ log' = log \o <<"run", "setup_callback">>
          /\ pc' = "setup_devtools"
          /\ UNCHANGED failure
       \/ /\ failure' = "run"
          /\ pc' = "expect_err"
          /\ UNCHANGED <<mainWindow, setupCalls, log>>
    /\ UNCHANGED <<debug_assertions, desktop, plugins, commands, setupHook,
                   devtoolsOpen, updaterAttempts, exitMsg, greetVars>>

SetupDevtools_unwrap ==
    /\ pc = "setup_devtools"
    /\ IF debug_assertions /\ ~mainWindow
       THEN /\ failure' = "devtools"
            /\ pc' = "setup_err"
            /\ UNCHANGED <<devtoolsOpen, log>>
       ELSE /\ IF debug_assertions
               THEN /\ devtoolsOpen' = devtoolsOpen + 1
                    /\ log' = Append(log, "open_devtools")
               ELSE UNCHANGED <<devtoolsOpen, log>>
            /\ pc' = "setup_updater"
            /\ UNCHANGED failure
    /\ UNCHANGED <<debug_assertions, desktop, plugins, commands, setupHook,
                   mainWindow, updaterAttempts, setupCalls, exitMsg, greetVars>>

SetupDevtools_any_build ==
    /\ pc = "setup_devtools"
    /\ IF mainWindow
       THEN /\ devtoolsOpen' = devtoolsOpen + 1
            /\ log' = Append(log, "open_devtools")
       ELSE UNCHANGED <<devtoolsOpen, log>>
    /\ pc' = "setup_updater"
    /\ UNCHANGED <<debug_assertions, desktop, plugins, commands, setupHook,
                   mainWindow, updaterAttempts, setupCalls, failure, exitMsg,
                   greetVars>>

\* #[cfg(debug_assertions)] { if let Some(window) =
\*     app.get_webview_window("main") { window.open_devtools(); } }
SetupDevtools ==
    /\ pc = "setup_devtools"
    /\ IF debug_assertions /\ mainWindow
       THEN /\ devtoolsOpen' = devtoolsOpen + 1
            /\ log' = Append(log, "open_devtools")
       ELSE UNCHANGED <<devtoolsOpen, log>>
    /\ pc' = "setup_updater"
    /\ UNCHANGED <<debug_assertions, desktop, plugins, commands, setupHook,
                   mainWindow, updaterAttempts, setupCalls, failure, exitMsg,
                   greetVars>>

SetupUpdater_no_cfg ==
    /\ pc = "setup_updater"
    /\ updaterAttempts' = updaterAttempts + 1
    /\ \/ /\ plugins' = Append(plugins, Plugin("updater", {}))
          /\ log' = Append(log, "updater")
          /\ pc' = "setup_ok"
          /\ UNCHANGED failure
       \/ /\ failure' = "updater"
          /\ pc' = "setup_err"
          /\ UNCHANGED <<plugins, log>>
    /\ UNCHANGED <<debug_assertions, desktop, commands, setupHook, mainWindow,
                   devtoolsOpen, setupCalls, exitMsg, greetVars>>

SetupUpdater_swallow ==
    /\ pc = "setup_updater"
    /\ IF desktop
       THEN /\ updaterAttempts' = updaterAttempts + 1
            /\ \/ /\ plugins' = Append(plugins, Plugin("updater", {}))
                  /\ log' = Append(log, "updater")
                  /\ UNCHANGED failure
               \/ /\ failure' = "updater"
                  /\ UNCHANGED <<plugins, log>>
            /\ pc' = "setup_ok"
       ELSE /\ pc' = "setup_ok"
            /\ UNCHANGED <<updaterAttempts, plugins, log, failure>>
    /\ UNCHANGED <<debug_assertions, desktop, commands, setupHook, mainWindow,
                   devtoolsOpen, setupCalls, exitMsg, greetVars>>

\* #[cfg(desktop)]
\* app.handle().plugin(tauri_plugin_updater::Builder::new().build())?;
SetupUpdater ==
    /\ pc = "setup_updater"
    /\ IF desktop
       THEN /\ updaterAttempts' = updaterAttempts + 1
            /\ \/ /\ plugins' = Append(plugins, Plugin("updater", {}))
                  /\ log' = Append(log, "updater")
                  /\ pc' = "setup_ok"
                  /\ UNCHANGED failure
               \/ /\ failure' = "updater"
                  /\ pc' = "setup_err"
                  /\ UNCHANGED <<plugins, log>>
       ELSE /\ pc' = "setup_ok"
            /\ UNCHANGED <<updaterAttempts, plugins, log, failure>>
    /\ UNCHANGED <<debug_assertions, desktop, commands, setupHook, mainWindow,
                   devtoolsOpen, setupCalls, exitMsg, greetVars>>

\* Ok(()): the closure returns and the framework enters its event loop.
SetupOk ==
    /\ pc = "setup_ok"
    /\ log' = Append(log, "event_loop")
    /\ pc' = "event_loop"
    /\ UNCHANGED <<debug_assertions, desktop, plugins, commands, setupHook,
                   mainWindow, devtoolsOpen, updaterAttempts, setupCalls,
                   failure, exitMsg, greetVars>>

\* The closure returned Err: the framework either hands it back as the Err
\* of Builder::run or panics on it itself.
SetupErr ==
    /\ pc = "setup_err"
    /\ \/ /\ pc' = "expect_err"
          /\ UNCHANGED exitMsg
       \/ /\ pc' = "panicked"
          /\ exitMsg' = SetupPanicMsg
    /\ UNCHANGED <<debug_assertions, desktop, plugins, commands, setupHook,
                   mainWindow, devtoolsOpen, updaterAttempts, setupCalls,
                   failure, log, greetVars>>

\* The front end invokes the greet command while the event loop runs.
Greet ==
    /\ pc = "event_loop"
    /\ "greet" \in commands
    /\ \E name \in Names :
          /\ arg' = name
          /\ reply' = greet(name)
    /\ invoked' = TRUE
    /\ UNCHANGED bootVars

\* The event loop ends: normally (Ok) or with a run-loop failure (Err).
EventLoopEnd ==
    /\ pc = "event_loop"
    /\ \/ /\ pc' = "expect_ok"
          /\ UNCHANGED failure
       \/ /\ pc' = "expect_err"
          /\ failure' = "run_loop"
    /\ UNCHANGED <<debug_assertions, desktop, plugins, commands, setupHook,
                   mainWindow, devtoolsOpen, updaterAttempts, setupCalls,
                   exitMsg, log, greetVars>>

\* .expect("error while running tauri application")
Expect ==
    /\ pc \in {"expect_ok", "expect_err"}
    /\ IF pc = "expect_err"
       THEN /\ pc' = "panicked"
            /\ exitMsg' = ExpectMsg
       ELSE /\ pc' = "exited"
            /\ UNCHANGED exitMsg
    /\ UNCHANGED <<debug_assertions, desktop, plugins, commands, setupHook,
                   mainWindow, devtoolsOpen, updaterAttempts, setupCalls,
                   failure, log, greetVars>>

Next ==
    \/ BuilderDefault
    \/ BuilderPlugin
    \/ InvokeHandler
    \/ Setup
    \/ Run
    \/ SetupDevtools
    \/ SetupUpdater
    \/ SetupOk
    \/ SetupErr
    \/ Greet
    \/ EventLoopEnd
    \/ Expect

Spec == Init /\ [][Next]_vars

---------------------------------------------------------------------------
(* Properties                                                              *)

Range(f) == {f[i] : i \in DOMAIN f}

PluginNames == {p.name : p \in Range(plugins)}

IsPrefix(s, t) == Len(s) <= Len(t) /\ \A i \in DOMAIN s : s[i] = t[i]

GreetPrefix == <<"H","e","l","l","o",","," ">>

GreetSuffix ==
    <<"!"," ","Y","o","u","'","v","e"," ","b","e","e","n"," ","g","r","e",
      "e","t","e","d"," ","f","r","o","m"," ","R","u","s","t","!">>

PermissiveFilter ==
    Plugin("prevent-default",
           {"FIND", "CARET_BROWSING", "DOWNLOADS", "FOCUS_MOVE", "SOURCE",
            "OPEN", "PRINT"})

StrictFilter ==
    Plugin("prevent-default",
           {"FIND", "CARET_BROWSING", "DEV_TOOLS", "DOWNLOADS", "FOCUS_MOVE",
            "RELOAD", "SOURCE", "OPEN", "PRINT"})

\* The builder chain is constructed once every .plugin call of it has run.
ChainBuilt == pc \notin ({"builder"} \cup Range(ChainPc))

\* The setup closure was called and has run past its last statement.
SetupBodyDone == setupCalls > 0 /\ pc \notin {"setup_devtools", "setup_updater"}

\* C1: every greet invocation returns "Hello, " + name + "! You've been
\* greeted from Rust!" with the name unchanged, once, unescaped and
\* untrimmed, and a greet invocation changes no state of the application.
C1_GreetExact ==
    /\ [](invoked =>
            /\ reply = GreetPrefix \o arg \o GreetSuffix
            /\ Len(reply) = Len(GreetPrefix) + Len(arg) + Len(GreetSuffix)
            /\ SubSeq(reply, Len(GreetPrefix) + 1, Len(GreetPrefix) + Len(arg)) = arg)
    /\ [][(invoked' /\ (~invoked \/ arg' # arg \/ reply' # reply))
            => UNCHANGED bootVars]_vars

C1_Witness ==
    /\ invoked
    /\ arg = <<"\t", "{">>
    /\ reply = GreetPrefix \o <<"\t", "{">> \o GreetSuffix

\* C2: once the builder chain is constructed a debug build holds both the
\* developer-tools plugin and the permissive prevent-default filter; a
\* release build never holds either of them, and holds the strict filter
\* once the chain is constructed.
C2_PluginSetByProfile ==
    /\ (debug_assertions /\ ChainBuilt) =>
          /\ Plugin("devtools", {}) \in Range(plugins)
          /\ PermissiveFilter \in Range(plugins)
    /\ ~debug_assertions =>
          /\ "devtools" \notin PluginNames
          /\ PermissiveFilter \notin Range(plugins)
          /\ ChainBuilt => StrictFilter \in Range(plugins)

C2_Witness ==
    /\ debug_assertions
    /\ pc = "event_loop"
    /\ PermissiveFilter \in Range(plugins)
    /\ "devtools" \in PluginNames

\* C3: on desktop every run whose setup callback was called has attempted the
\* updater registration, during that callback, by the time the callback's body
\* is done; on a non-desktop platform the registration is never attempted.
C3_UpdaterAttempt ==
    /\ (desktop /\ SetupBodyDone) => updaterAttempts = 1
    /\ updaterAttempts > 0 => setupCalls > 0
    /\ ~desktop => (updaterAttempts = 0 /\ "updater" \notin PluginNames)

C3_Witness ==
    /\ desktop
    /\ ~debug_assertions
    /\ ~mainWindow
    /\ pc = "setup_ok"
    /\ updaterAttempts = 1

\* C4: in a debug build with no window "main", the developer-tools step of the
\* setup callback changes nothing but the program point: no error, no panel,
\* and it continues to the updater step, the step it continues to when the
\* window exists.
C4_NoWindowNoOp ==
    /\ [](debug_assertions /\ ~mainWindow => devtoolsOpen = 0)
    /\ [][(pc = "setup_devtools" /\ debug_assertions) =>
            /\ pc' = "setup_updater"
            /\ failure' = "none"
            /\ exitMsg' = ""
            /\ ~mainWindow =>
                 UNCHANGED <<plugins, commands, devtoolsOpen, updaterAttempts,
                             setupCalls, failure, exitMsg, log>>]_vars

C4_Witness ==
    /\ debug_assertions
    /\ ~mainWindow
    /\ setupCalls = 1
    /\ pc = "event_loop"
    /\ devtoolsOpen = 0

\* C5: in the release/desktop configuration the event loop runs with exactly
\* the plugins prevent-default(strict), opener, store, deep-link, http,
\* process, os and updater, each registered once, and exactly the command
\* greet.
C5_ReleaseDesktopSet ==
    (~debug_assertions /\ desktop /\ pc = "event_loop") =>
        /\ Range(plugins) =
              {StrictFilter, Plugin("opener", {}), Plugin("store", {}),
               Plugin("deep-link", {}), Plugin("http", {}),
               Plugin("process", {}), Plugin("os", {}), Plugin("updater", {})}
        /\ Len(plugins) = Cardinality(Range(plugins))
        /\ commands = {"greet"}

C5_Witness ==
    /\ ~debug_assertions
    /\ desktop
    /\ pc = "event_loop"
    /\ "updater" \in PluginNames

\* C6: once the updater registration has failed, the run is on the error path
\* only: the event loop is never entered, the registration is not attempted
\* again, the updater is not registered, and the run can only stop in the
\* terminated state, with a message.
C6_UpdaterFailureFatal ==
    failure = "updater" =>
        /\ desktop
        /\ pc \in {"setup_err", "expect_err", "panicked"}
        /\ "event_loop" \notin Range(log)
        /\ updaterAttempts = 1
        /\ "updater" \notin PluginNames
        /\ pc = "panicked" => exitMsg # ""
        /\ ~ENABLED Next => (pc = "panicked" /\ exitMsg # "")

C6_Witness ==
    /\ desktop
    /\ failure = "updater"
    /\ pc = "panicked"
    /\ exitMsg = ExpectMsg

\* Names of the plugins a configuration requires.
RequiredPlugins(dbg, dsk) ==
    {"prevent-default", "opener", "store", "deep-link", "http", "process", "os"}
        \cup (IF dbg THEN {"devtools"} ELSE {})
        \cup (IF dsk THEN {"updater"} ELSE {})

\* C7: the event loop runs only with every plugin of the configuration and the
\* greet command registered and no failure recorded; a run stops only as
\* exited (after the event loop) or terminated; a failure is never recovered
\* from and no step is attempted twice.
C7_AllOrNothing ==
    /\ pc = "event_loop" =>
          /\ PluginNames = RequiredPlugins(debug_assertions, desktop)
          /\ commands = {"greet"}
          /\ failure = "none"
          /\ exitMsg = ""
    /\ updaterAttempts <= 1
    /\ setupCalls <= 1
    /\ failure # "none" => pc \in {"setup_err", "expect_err", "panicked"}
    /\ pc = "exited" => (failure = "none" /\ "event_loop" \in Range(log))
    /\ pc = "panicked" => exitMsg # ""
    /\ ~ENABLED Next <=> pc \in {"exited", "panicked"}

C7_Witness ==
    /\ pc = "panicked"
    /\ failure = "run_loop"
    /\ PluginNames = RequiredPlugins(debug_assertions, desktop)

\* The one order of the steps of a run that reaches the event loop.
ExpectedOrder(dbg, dsk, win) ==
    (IF dbg THEN <<"devtools">> ELSE <<>>)
        \o <<"prevent-default", "opener", "store", "deep-link", "http",
             "process", "os", "invoke_handler", "setup", "run",
             "setup_callback">>
        \o (IF dbg /\ win THEN <<"open_devtools">> ELSE <<>>)
        \o (IF dsk THEN <<"updater">> ELSE <<>>)
        \o <<"event_loop">>

\* C8: the steps of every run are a prefix of one fixed order: developer-tools
\* plugin (debug), prevent-default, opener, store, deep-link, http, process,
\* os, the greet handler, the setup closure, the run, the setup callback, the
\* updater (desktop), the event loop; the setup callback runs at most once and
\* exactly once before the event loop; the updater is the last plugin and no
\* plugin is registered twice.
C8_FixedOrder ==
    /\ IsPrefix(log, ExpectedOrder(debug_assertions, desktop, mainWindow))
    /\ setupCalls <= 1
    /\ pc = "event_loop" =>
          (setupCalls = 1 /\ log = ExpectedOrder(debug_assertions, desktop, mainWindow))
    /\ setupCalls = 1 => (ChainBuilt /\ setupHook /\ commands = {"greet"})
    /\ "updater" \in PluginNames => plugins[Len(plugins)].name = "updater"
    /\ \A i, j \in DOMAIN plugins : plugins[i].name = plugins[j].name => i = j
    /\ [n \in DOMAIN plugins |-> plugins[n].name]
          = SelectSeq(log, LAMBDA e : e \in RequiredPlugins(TRUE, TRUE))

C8_Witness ==
    /\ debug_assertions
    /\ desktop
    /\ mainWindow
    /\ pc = "event_loop"
    /\ Len(plugins) = Cardinality(RequiredPlugins(TRUE, TRUE))

\* Behaviours a filter configured with flags f leaves alone.
Preserved(f) == AllFlags \ f

\* C9: a registered prevent-default filter preserves exactly developer tools,
\* reload and context menu in a debug build and exactly context menu in a
\* release build; the context menu is suppressed in neither build, and debug
\* suppresses a strict subset of what release suppresses, short of exactly
\* developer tools and reload.
C9_PreservedSets ==
    /\ \A p \in Range(plugins) :
          p.name = "prevent-default" =>
             Preserved(p.flags) =
                IF debug_assertions
                THEN {"DEV_TOOLS", "RELOAD", "CONTEXT_MENU"}
                ELSE {"CONTEXT_MENU"}
    /\ LET sd == prevent_default(TRUE).flags
           sr == prevent_default(FALSE).flags
       IN  /\ "CONTEXT_MENU" \notin (sd \cup sr)
           /\ sd \subseteq sr
           /\ sd # sr
           /\ sr \ sd = {"DEV_TOOLS", "RELOAD"}

C9_Witness ==
    /\ debug_assertions
    /\ \E p \in Range(plugins) :
          /\ p.name = "prevent-default"
          /\ Preserved(p.flags) = {"DEV_TOOLS", "RELOAD", "CONTEXT_MENU"}

\* C10: the developer-tools panel is opened at most once, only in a debug
\* build with a main window, only as the first step of the setup callback and
\* so before any updater attempt; when the updater then fails the panel stays
\* opened; a release build never opens it.
C10_DevtoolsPanel ==
    /\ devtoolsOpen <= 1
    /\ devtoolsOpen > 0 => (debug_assertions /\ mainWindow /\ setupCalls = 1)
    /\ ~debug_assertions => (devtoolsOpen = 0 /\ "open_devtools" \notin Range(log))
    /\ \A i \in DOMAIN log :
          log[i] = "open_devtools" => (i > 1 /\ log[i - 1] = "setup_callback")
    /\ (devtoolsOpen = 1) <=> ("open_devtools" \in Range(log))
    /\ (debug_assertions /\ mainWindow /\ updaterAttempts > 0) => devtoolsOpen = 1
    /\ (debug_assertions /\ mainWindow /\ failure = "updater") => devtoolsOpen = 1

C10_Witness ==
    /\ debug_assertions
    /\ desktop
    /\ mainWindow
    /\ failure = "updater"
    /\ pc = "panicked"
    /\ devtoolsOpen = 1

=============================================================================
